---- MODULE Spec2Model ----
(***************************************************************************)
(* Model of drivers/cpufreq/bcm2835-cpufreq.c: the cpufreq driver that     *)
(* asks the VideoCore firmware for the ARM clock's minimum and maximum     *)
(* rate, builds a two-entry frequency table from them, and serves the      *)
(* cpufreq core's .init, .get and .target_index callbacks.                 *)
(*                                                                         *)
(* The driver's state is the three file-scope statics; the firmware        *)
(* mailbox, the MYTEE trusted-display flags and the contents of an         *)
(* uninitialised stack slot are inputs drawn at every call.                *)
(***************************************************************************)
EXTENDS Integers, Sequences, FiniteSets, TLC

VARIABLES
    min_frequency,       \* static unsigned int min_frequency (kHz)
    max_frequency,       \* static unsigned int max_frequency (kHz)
    bcm2835_freq_table,  \* .frequency of the three table slots, indexed 0..2
    policy,              \* the cpufreq_policy handed to .init
    last                 \* the callback that ran last: arguments, result, requests

vars == <<min_frequency, max_frequency, bcm2835_freq_table, policy, last>>

DriverState == <<min_frequency, max_frequency, bcm2835_freq_table>>

-----------------------------------------------------------------------------
(* Bounds of the model *)

\* .target_index is called with state in 0..MaxIndex
MaxIndex == 2

\* the firmware answers with the rates 200 MHz + k * 600 MHz, k < MaxRateStep,
\* next to the boundary rates of HzValues
MaxRateStep == 2

-----------------------------------------------------------------------------
(* Program constants and 32-bit arithmetic *)

VCMSG_ID_ARM_CLOCK == 3

transition_latency == 355000

ENODEV == 19

EINVAL == 22

\* A u32 (u32, uint32_t, unsigned int) is kept as its two 16-bit halves,
\* [hi, lo], standing for hi * 2^16 + lo.
Half == 2 ^ 16

\* the conversion of an int to u32 (two's complement for a negative one)
ToU32(n) == [hi |-> (n \div Half) % Half, lo |-> n % Half]

U32Values == [hi : 0 .. (Half - 1), lo : 0 .. (Half - 1)]

\* ~a
U32Not(a) == [hi |-> Half - 1 - a.hi, lo |-> Half - 1 - a.lo]

\* a <= b, unsigned
U32Le(a, b) == a.hi < b.hi \/ (a.hi = b.hi /\ a.lo <= b.lo)

\* a / 1000, unsigned: long division over the two halves
U32Div1000(a) ==
    LET rest == (a.hi % 1000) * Half + a.lo
    IN  ToU32((a.hi \div 1000) * Half + rest \div 1000)

\* a * 1000 modulo 2^32
U32Mul1000(a) ==
    LET p == a.lo * 1000
    IN  [hi |-> (a.hi * 1000 + p \div Half) % Half, lo |-> p % Half]

\* a % 1000, unsigned
U32Mod1000(a) == ((a.hi % 1000) * Half + a.lo) % 1000

\* ~0u, the largest u32
U32Max == U32Not(ToU32(0))

\* ~1u
CPUFREQ_TABLE_END == U32Not(ToU32(1))

-----------------------------------------------------------------------------
(* Inputs *)

\* the largest rate in kHz a u32 rate in Hz converts to, 4294967
MaxKHz == U32Div1000(U32Max)

\* rates in Hz the firmware may put in packet.val: 0, a rate below 1 kHz,
\* a rate between two operating points, the largest u32, the largest
\* multiple of 1000 in a u32, and a ladder of operating points
HzValues ==
    {ToU32(0), ToU32(999), ToU32(750000), U32Max, U32Mul1000(MaxKHz)}
        \cup {ToU32(200000 + 600000 * k) : k \in 0 .. (MaxRateStep - 1)}

\* what the uninitialised "u32 rate" of bcm2835_cpufreq_get_clock may hold
\* where the code goes on to compute with it
UninitValues == {ToU32(0), U32Max}

\* the content of that slot where nothing reads it back: it only travels to
\* the firmware as the payload of a GET request, or stays in a dead variable
Indeterminate == "indeterminate"

\* what rpi_firmware_property returns when it fails: -EINVAL, -ETIMEDOUT
TransportErrors == {-22, -110}

\* One call of bcm2835_cpufreq_clock_property sees: the two MYTEE flags, the
\* caller's stack slot, and the mailbox's answer.  The answer is left out (0)
\* where the mailbox is not asked or fails, and the slot's content is drawn
\* where the gate hands it back to the caller.  A build without CONFIG_MYTEE
\* is the behaviours in which both flags are always 0.
ClockEnv(stacks) ==
    [mmap_flag : {0}, write_flag : {0}, stack : {Indeterminate},
     fw_ret : {0}, fw_val : HzValues]
    \cup [mmap_flag : {0}, write_flag : {0}, stack : {Indeterminate},
          fw_ret : TransportErrors, fw_val : {ToU32(0)}]
    \cup { e \in [mmap_flag : {0, 1}, write_flag : {0, 1}, stack : stacks,
                  fw_ret : {0}, fw_val : {ToU32(0)}] :
               e.mmap_flag = 1 \/ e.write_flag = 1 }

GetEnv == ClockEnv(UninitValues)

\* bcm2835_cpufreq_set_clock initialises its rate: the stack slot is not read
SetEnv == ClockEnv({Indeterminate})

\* the inputs of a call that is never made
NoEnv == [mmap_flag |-> 0, write_flag |-> 0, stack |-> Indeterminate,
          fw_ret |-> 0, fw_val |-> ToU32(0)]

-----------------------------------------------------------------------------
(* The clock property channel *)

\* Mutant of bcm2835_cpufreq_clock_property: the gate shuts only when both
\* flags are set (&& for ||).
mut_clock_property_and(tag, id, val, env) ==
    LET packet == [id |-> id, val |-> val]
        call(transport, ret, out) ==
            [tag |-> tag, id |-> id, mmap_flag |-> env.mmap_flag,
             write_flag |-> env.write_flag, val_in |-> val,
             transport |-> transport, ret |-> ret, val_out |-> out]
    IN  IF env.mmap_flag = 1 /\ env.write_flag = 1
        THEN [ret |-> 0, val |-> val, call |-> call(<<>>, 0, val)]
        ELSE IF env.fw_ret # 0
        THEN [ret |-> env.fw_ret, val |-> val,
              call |-> call(<<[tag |-> tag, packet |-> packet]>>, env.fw_ret, val)]
        ELSE [ret |-> 0, val |-> env.fw_val,
              call |-> call(<<[tag |-> tag, packet |-> packet]>>, 0, env.fw_val)]

\* Mutant of bcm2835_cpufreq_clock_property: a failed rpi_firmware_property is
\* tried once more before the error is returned.
mut_clock_property_retry(tag, id, val, env) ==
    LET packet == [id |-> id, val |-> val]
        sent == [tag |-> tag, packet |-> packet]
        call(transport, ret, out) ==
            [tag |-> tag, id |-> id, mmap_flag |-> env.mmap_flag,
             write_flag |-> env.write_flag, val_in |-> val,
             transport |-> transport, ret |-> ret, val_out |-> out]
    IN  IF env.mmap_flag = 1 \/ env.write_flag = 1
        THEN [ret |-> 0, val |-> val, call |-> call(<<>>, 0, val)]
        ELSE IF env.fw_ret # 0
        THEN [ret |-> env.fw_ret, val |-> val,
              call |-> call(<<sent, sent>>, env.fw_ret, val)]
        ELSE [ret |-> 0, val |-> env.fw_val, call |-> call(<<sent>>, 0, env.fw_val)]

\* bcm2835_cpufreq_clock_property(tag, id, &val): the returned ret and *val,
\* and the record of the call: what came in, which packets went to
\* rpi_firmware_property, what went out.
bcm2835_cpufreq_clock_property(tag, id, val, env) ==
    LET packet == [id |-> id, val |-> val]
        call(transport, ret, out) ==
            [tag |-> tag, id |-> id, mmap_flag |-> env.mmap_flag,
             write_flag |-> env.write_flag, val_in |-> val,
             transport |-> transport, ret |-> ret, val_out |-> out]
    IN  IF env.mmap_flag = 1 \/ env.write_flag = 1
        THEN \* goto exit
             [ret |-> 0, val |-> val, call |-> call(<<>>, 0, val)]
        ELSE IF env.fw_ret # 0
        THEN [ret |-> env.fw_ret, val |-> val,
              call |-> call(<<[tag |-> tag, packet |-> packet]>>, env.fw_ret, val)]
        ELSE [ret |-> 0, val |-> env.fw_val,
              call |-> call(<<[tag |-> tag, packet |-> packet]>>, 0, env.fw_val)]

\* Mutant of bcm2835_cpufreq_set_clock: the failure branch does not return,
\* and the untouched rate is converted and returned.
mut_set_clock_no_return(arm_rate, env) ==
    LET r == bcm2835_cpufreq_clock_property("RPI_FIRMWARE_SET_CLOCK_RATE",
                 VCMSG_ID_ARM_CLOCK, U32Mul1000(arm_rate), env)
    IN  [rate |-> U32Div1000(r.val), call |-> r.call]

\* Mutant of bcm2835_cpufreq_set_clock: the rate is sent as it is, in kHz,
\* without the multiplication by 1000.
mut_set_clock_no_scale(arm_rate, env) ==
    LET r == bcm2835_cpufreq_clock_property("RPI_FIRMWARE_SET_CLOCK_RATE",
                 VCMSG_ID_ARM_CLOCK, arm_rate, env)
    IN  [rate |-> IF r.ret # 0 THEN ToU32(0) ELSE U32Div1000(r.val),
         call |-> r.call]

\* bcm2835_cpufreq_set_clock(cur_rate, arm_rate): the rate returned, in kHz.
\* "u32 rate = arm_rate * 1000" multiplies two ints and stores the product in
\* a u32; the kernel is built with -fno-strict-overflow, so the product wraps
\* and the stored bits are those of the multiplication modulo 2^32.
bcm2835_cpufreq_set_clock(arm_rate, env) ==
    LET r == bcm2835_cpufreq_clock_property("RPI_FIRMWARE_SET_CLOCK_RATE",
                 VCMSG_ID_ARM_CLOCK, U32Mul1000(arm_rate), env)
    IN  [rate |-> IF r.ret # 0 THEN ToU32(0) ELSE U32Div1000(r.val),
         call |-> r.call]

\* Mutant of bcm2835_cpufreq_get_clock: the failure branch returns ret
\* (converted to uint32_t) in place of 0.
mut_get_clock_returns_ret(tag, env) ==
    LET r == bcm2835_cpufreq_clock_property(tag, VCMSG_ID_ARM_CLOCK, env.stack, env)
    IN  [rate |-> IF r.ret # 0 THEN ToU32(r.ret) ELSE U32Div1000(r.val),
         call |-> r.call]

\* Mutant of bcm2835_cpufreq_get_clock: the rate is returned in Hz, without
\* the division by 1000.
mut_get_clock_no_div(tag, env) ==
    LET r == bcm2835_cpufreq_clock_property(tag, VCMSG_ID_ARM_CLOCK, env.stack, env)
    IN  [rate |-> IF r.ret # 0 THEN ToU32(0) ELSE r.val, call |-> r.call]

\* bcm2835_cpufreq_get_clock(tag): the rate returned, in kHz; "u32 rate" is
\* passed uninitialised
bcm2835_cpufreq_get_clock(tag, env) ==
    LET r == bcm2835_cpufreq_clock_property(tag, VCMSG_ID_ARM_CLOCK, env.stack, env)
    IN  [rate |-> IF r.ret # 0 THEN ToU32(0) ELSE U32Div1000(r.val),
         call |-> r.call]

-----------------------------------------------------------------------------
(* The callbacks *)

\* cpufreq_generic_init(policy, table, transition_latency): hands the table
\* and the latency to the policy and succeeds
cpufreq_generic_init(pol, table, latency) ==
    [policy |-> [freq_table |-> table, transition_latency |-> latency], ret |-> 0]

\* the record of init's call "return cpufreq_generic_init(policy,
\* bcm2835_freq_table, transition_latency)" and of what it returned
genCall(ret) ==
    [table |-> "bcm2835_freq_table", transition_latency |-> transition_latency,
     ret |-> ret]

\* Mutant of bcm2835_cpufreq_driver_init: the two-entry branch does not
\* write the terminator into slot 2.
mut_init_no_terminator(min, max, table, pol, fw, envMin, envMax) ==
    IF fw = "NULL"
    THEN [min_frequency |-> min, max_frequency |-> max, table |-> table,
          policy |-> pol, ret |-> -ENODEV, calls |-> <<>>, generic |-> <<>>]
    ELSE LET lo == bcm2835_cpufreq_get_clock("RPI_FIRMWARE_GET_MIN_CLOCK_RATE", envMin)
             hi == bcm2835_cpufreq_get_clock("RPI_FIRMWARE_GET_MAX_CLOCK_RATE", envMax)
             tab == IF lo.rate = hi.rate
                    THEN [table EXCEPT ![0] = lo.rate, ![1] = CPUFREQ_TABLE_END]
                    ELSE [table EXCEPT ![0] = lo.rate, ![1] = hi.rate]
             gen == cpufreq_generic_init(pol, "bcm2835_freq_table", transition_latency)
         IN  [min_frequency |-> lo.rate, max_frequency |-> hi.rate, table |-> tab,
              policy |-> gen.policy, ret |-> gen.ret,
              calls |-> <<lo.call, hi.call>>, generic |-> <<genCall(gen.ret)>>]

\* Mutant of bcm2835_cpufreq_driver_init: the missing firmware is logged but
\* init does not return.
mut_init_no_enodev(min, max, table, pol, fw, envMin, envMax) ==
    LET lo == bcm2835_cpufreq_get_clock("RPI_FIRMWARE_GET_MIN_CLOCK_RATE", envMin)
        hi == bcm2835_cpufreq_get_clock("RPI_FIRMWARE_GET_MAX_CLOCK_RATE", envMax)
        tab == IF lo.rate = hi.rate
               THEN [table EXCEPT ![0] = lo.rate, ![1] = CPUFREQ_TABLE_END]
               ELSE [table EXCEPT ![0] = lo.rate, ![1] = hi.rate,
                                  ![2] = CPUFREQ_TABLE_END]
        gen == cpufreq_generic_init(pol, "bcm2835_freq_table", transition_latency)
    IN  [min_frequency |-> lo.rate, max_frequency |-> hi.rate, table |-> tab,
         policy |-> gen.policy, ret |-> gen.ret,
         calls |-> <<lo.call, hi.call>>, generic |-> <<genCall(gen.ret)>>]

\* Mutant of bcm2835_cpufreq_driver_init: a query the transport failed ends
\* init with the transport's error code.
mut_init_propagates(min, max, table, pol, fw, envMin, envMax) ==
    IF fw = "NULL"
    THEN [min_frequency |-> min, max_frequency |-> max, table |-> table,
          policy |-> pol, ret |-> -ENODEV, calls |-> <<>>, generic |-> <<>>]
    ELSE LET lo == bcm2835_cpufreq_get_clock("RPI_FIRMWARE_GET_MIN_CLOCK_RATE", envMin)
             hi == bcm2835_cpufreq_get_clock("RPI_FIRMWARE_GET_MAX_CLOCK_RATE", envMax)
             tab == IF lo.rate = hi.rate
                    THEN [table EXCEPT ![0] = lo.rate, ![1] = CPUFREQ_TABLE_END]
                    ELSE [table EXCEPT ![0] = lo.rate, ![1] = hi.rate,
                                       ![2] = CPUFREQ_TABLE_END]
             gen == cpufreq_generic_init(pol, "bcm2835_freq_table", transition_latency)
         IN  IF lo.call.ret # 0
             THEN [min_frequency |-> lo.rate, max_frequency |-> max,
                   table |-> table, policy |-> pol, ret |-> lo.call.ret,
                   calls |-> <<lo.call>>, generic |-> <<>>]
             ELSE IF hi.call.ret # 0
             THEN [min_frequency |-> lo.rate, max_frequency |-> hi.rate,
                   table |-> table, policy |-> pol, ret |-> hi.call.ret,
                   calls |-> <<lo.call, hi.call>>, generic |-> <<>>]
             ELSE [min_frequency |-> lo.rate, max_frequency |-> hi.rate,
                   table |-> tab, policy |-> gen.policy, ret |-> gen.ret,
                   calls |-> <<lo.call, hi.call>>, generic |-> <<genCall(gen.ret)>>]

\* Mutant of bcm2835_cpufreq_driver_init: the one-entry branch writes slot 0
\* only and leaves slot 1 as it was.
mut_init_no_end_slot1(min, max, table, pol, fw, envMin, envMax) ==
    IF fw = "NULL"
    THEN [min_frequency |-> min, max_frequency |-> max, table |-> table,
          policy |-> pol, ret |-> -ENODEV, calls |-> <<>>, generic |-> <<>>]
    ELSE LET lo == bcm2835_cpufreq_get_clock("RPI_FIRMWARE_GET_MIN_CLOCK_RATE", envMin)
             hi == bcm2835_cpufreq_get_clock("RPI_FIRMWARE_GET_MAX_CLOCK_RATE", envMax)
             tab == IF lo.rate = hi.rate
                    THEN [table EXCEPT ![0] = lo.rate]
                    ELSE [table EXCEPT ![0] = lo.rate, ![1] = hi.rate,
                                       ![2] = CPUFREQ_TABLE_END]
             gen == cpufreq_generic_init(pol, "bcm2835_freq_table", transition_latency)
         IN  [min_frequency |-> lo.rate, max_frequency |-> hi.rate, table |-> tab,
              policy |-> gen.policy, ret |-> gen.ret,
              calls |-> <<lo.call, hi.call>>, generic |-> <<genCall(gen.ret)>>]

\* Mutant of bcm2835_cpufreq_driver_init: the table is filled from the two
\* statics before the maximum is stored, so slot 1 gets the old max_frequency.
mut_init_stale_max(min, max, table, pol, fw, envMin, envMax) ==
    IF fw = "NULL"
    THEN [min_frequency |-> min, max_frequency |-> max, table |-> table,
          policy |-> pol, ret |-> -ENODEV, calls |-> <<>>, generic |-> <<>>]
    ELSE LET lo == bcm2835_cpufreq_get_clock("RPI_FIRMWARE_GET_MIN_CLOCK_RATE", envMin)
             hi == bcm2835_cpufreq_get_clock("RPI_FIRMWARE_GET_MAX_CLOCK_RATE", envMax)
             tab == IF lo.rate = max
                    THEN [table EXCEPT ![0] = lo.rate, ![1] = CPUFREQ_TABLE_END]
                    ELSE [table EXCEPT ![0] = lo.rate, ![1] = max,
                                       ![2] = CPUFREQ_TABLE_END]
             gen == cpufreq_generic_init(pol, "bcm2835_freq_table", transition_latency)
         IN  [min_frequency |-> lo.rate, max_frequency |-> hi.rate, table |-> tab,
              policy |-> gen.policy, ret |-> gen.ret,
              calls |-> <<lo.call, hi.call>>, generic |-> <<genCall(gen.ret)>>]

\* bcm2835_cpufreq_driver_init(policy); fw is what rpi_firmware_get(NULL)
\* returned
bcm2835_cpufreq_driver_init(min, max, table, pol, fw, envMin, envMax) ==
    IF fw = "NULL"
    THEN [min_frequency |-> min, max_frequency |-> max, table |-> table,
          policy |-> pol, ret |-> -ENODEV, calls |-> <<>>, generic |-> <<>>]
    ELSE LET lo == bcm2835_cpufreq_get_clock("RPI_FIRMWARE_GET_MIN_CLOCK_RATE", envMin)
             hi == bcm2835_cpufreq_get_clock("RPI_FIRMWARE_GET_MAX_CLOCK_RATE", envMax)
             tab == IF lo.rate = hi.rate
                    THEN [table EXCEPT ![0] = lo.rate, ![1] = CPUFREQ_TABLE_END]
                    ELSE [table EXCEPT ![0] = lo.rate, ![1] = hi.rate,
                                       ![2] = CPUFREQ_TABLE_END]
             gen == cpufreq_generic_init(pol, "bcm2835_freq_table", transition_latency)
         IN  [min_frequency |-> lo.rate, max_frequency |-> hi.rate, table |-> tab,
              policy |-> gen.policy, ret |-> gen.ret,
              calls |-> <<lo.call, hi.call>>, generic |-> <<genCall(gen.ret)>>]

\* Mutant of bcm2835_cpufreq_driver_target_index: the index is tested
\* against 1 (state == 1 ? max_frequency : min_frequency).
mut_target_index_swapped(min, max, table, state, env) ==
    LET target_freq == IF state = 1 THEN max ELSE min
        cur == bcm2835_cpufreq_set_clock(target_freq, env)
    IN  [min_frequency |-> min, max_frequency |-> max, table |-> table,
         ret |-> IF cur.rate = ToU32(0) THEN -EINVAL ELSE 0, calls |-> <<cur.call>>]

\* Mutant of bcm2835_cpufreq_driver_target_index: the rate the firmware
\* applied is kept as the new bound of the index asked for.
mut_target_index_caches(min, max, table, state, env) ==
    LET target_freq == IF state = 0 THEN min ELSE max
        cur == bcm2835_cpufreq_set_clock(target_freq, env)
        ok == cur.rate # ToU32(0)
    IN  [min_frequency |-> IF ok /\ state = 0 THEN cur.rate ELSE min,
         max_frequency |-> IF ok /\ state # 0 THEN cur.rate ELSE max,
         table |-> table,
         ret |-> IF ok THEN 0 ELSE -EINVAL, calls |-> <<cur.call>>]

\* Mutant of bcm2835_cpufreq_driver_target_index: a rate other than the one
\* asked for is an error too.
mut_target_index_exact(min, max, table, state, env) ==
    LET target_freq == IF state = 0 THEN min ELSE max
        cur == bcm2835_cpufreq_set_clock(target_freq, env)
    IN  [min_frequency |-> min, max_frequency |-> max, table |-> table,
         ret |-> IF cur.rate = ToU32(0) \/ cur.rate # target_freq
                 THEN -EINVAL ELSE 0,
         calls |-> <<cur.call>>]

\* bcm2835_cpufreq_driver_target_index(policy, state)
bcm2835_cpufreq_driver_target_index(min, max, table, state, env) ==
    LET target_freq == IF state = 0 THEN min ELSE max
        cur == bcm2835_cpufreq_set_clock(target_freq, env)
    IN  [min_frequency |-> min, max_frequency |-> max, table |-> table,
         ret |-> IF cur.rate = ToU32(0) THEN -EINVAL ELSE 0, calls |-> <<cur.call>>]

\* Mutant of bcm2835_cpufreq_driver_get: a rate above min_frequency is
\* returned as it is, not snapped to max_frequency.
mut_get_raw(min, max, table, env) ==
    LET actual_rate == bcm2835_cpufreq_get_clock("RPI_FIRMWARE_GET_CLOCK_RATE", env)
    IN  [min_frequency |-> min, max_frequency |-> max, table |-> table,
         freq |-> IF U32Le(actual_rate.rate, min) THEN min ELSE actual_rate.rate,
         calls |-> <<actual_rate.call>>]

\* Mutant of bcm2835_cpufreq_driver_get: the rate read becomes the new
\* min_frequency when it lies above it.
mut_get_caches(min, max, table, env) ==
    LET actual_rate == bcm2835_cpufreq_get_clock("RPI_FIRMWARE_GET_CLOCK_RATE", env)
        below == U32Le(actual_rate.rate, min)
    IN  [min_frequency |-> IF below THEN min ELSE actual_rate.rate,
         max_frequency |-> max, table |-> table,
         freq |-> IF below THEN min ELSE max,
         calls |-> <<actual_rate.call>>]

\* Mutant of bcm2835_cpufreq_driver_get: the comparison is strict
\* (actual_rate < min_frequency).
mut_get_strict(min, max, table, env) ==
    LET actual_rate == bcm2835_cpufreq_get_clock("RPI_FIRMWARE_GET_CLOCK_RATE", env)
    IN  [min_frequency |-> min, max_frequency |-> max, table |-> table,
         freq |-> IF U32Le(actual_rate.rate, min) /\ actual_rate.rate # min
                  THEN min ELSE max,
         calls |-> <<actual_rate.call>>]

\* bcm2835_cpufreq_driver_get(cpu)
bcm2835_cpufreq_driver_get(min, max, table, env) ==
    LET actual_rate == bcm2835_cpufreq_get_clock("RPI_FIRMWARE_GET_CLOCK_RATE", env)
    IN  [min_frequency |-> min, max_frequency |-> max, table |-> table,
         freq |-> IF U32Le(actual_rate.rate, min) THEN min ELSE max,
         calls |-> <<actual_rate.call>>]

-----------------------------------------------------------------------------
(* The state machine *)

\* the statics are zero-initialised; no policy has been set up
Init ==
    /\ min_frequency = ToU32(0)
    /\ max_frequency = ToU32(0)
    /\ bcm2835_freq_table = [i \in 0 .. 2 |-> ToU32(0)]
    /\ policy = [freq_table |-> "NULL", transition_latency |-> 0]
    /\ last = [op |-> "none", arg |-> 0, fw |-> "NULL", ret |-> 0,
              freq |-> ToU32(0), calls |-> <<>>, generic |-> <<>>]

\* the cpufreq core calls .init; no property call is made, and so no input
\* drawn for one, when rpi_firmware_get(NULL) finds no firmware
init ==
    \E fw \in {"NULL", "fw"} :
        \E envMin \in IF fw = "NULL" THEN {NoEnv} ELSE GetEnv :
            \E envMax \in IF fw = "NULL" THEN {NoEnv} ELSE GetEnv :
                LET r == bcm2835_cpufreq_driver_init(min_frequency, max_frequency,
                             bcm2835_freq_table, policy, fw, envMin, envMax)
                IN  /\ min_frequency' = r.min_frequency
                    /\ max_frequency' = r.max_frequency
                    /\ bcm2835_freq_table' = r.table
                    /\ policy' = r.policy
                    /\ last' = [op |-> "init", arg |-> 0, fw |-> fw, ret |-> r.ret,
                                freq |-> ToU32(0), calls |-> r.calls,
                                generic |-> r.generic]

\* the cpufreq core calls .get
get ==
    \E env \in GetEnv :
        LET r == bcm2835_cpufreq_driver_get(min_frequency, max_frequency,
                                            bcm2835_freq_table, env)
        IN  /\ min_frequency' = r.min_frequency
            /\ max_frequency' = r.max_frequency
            /\ bcm2835_freq_table' = r.table
            /\ UNCHANGED policy
            /\ last' = [op |-> "get", arg |-> 0, fw |-> "fw", ret |-> 0,
                        freq |-> r.freq, calls |-> r.calls, generic |-> <<>>]

\* the cpufreq core calls .target_index
target_index ==
    \E state \in 0 .. MaxIndex, env \in SetEnv :
        LET r == bcm2835_cpufreq_driver_target_index(min_frequency, max_frequency,
                                                     bcm2835_freq_table, state, env)
        IN  /\ min_frequency' = r.min_frequency
            /\ max_frequency' = r.max_frequency
            /\ bcm2835_freq_table' = r.table
            /\ UNCHANGED policy
            /\ last' = [op |-> "target_index", arg |-> state, fw |-> "fw",
                        ret |-> r.ret, freq |-> ToU32(0), calls |-> r.calls,
                        generic |-> <<>>]

Next == init \/ get \/ target_index

Spec == Init /\ [][Next]_vars

TypeOK ==
    /\ min_frequency \in U32Values
    /\ max_frequency \in U32Values
    /\ \A i \in 0 .. 2 : bcm2835_freq_table[i] \in U32Values
    /\ last.op \in {"none", "init", "get", "target_index"}

-----------------------------------------------------------------------------
(* Reading the record of the last callback *)

\* the call went to rpi_firmware_property
Issued(c) == c.transport # <<>>

\* the firmware answered the call: val_out is the rate it reported
Answered(c) == Issued(c) /\ c.ret = 0

\* the security gate was shut when the call was made
Blocked(c) == c.mmap_flag = 1 \/ c.write_flag = 1

Zero == ToU32(0)

-----------------------------------------------------------------------------
(* C1 *)

\* C1: when the firmware answers both queries of an init with min <= max and
\* init succeeds, slot 0 holds min / 1000 (truncated); if max / 1000 differs
\* from it, slot 1 holds max / 1000 and slot 2 the CPUFREQ_TABLE_END sentinel;
\* if the two are equal, slot 1 holds the sentinel.
C1_TableFromRates ==
    (/\ last.op = "init" /\ last.fw = "fw" /\ last.ret = 0
     /\ Answered(last.calls[1]) /\ Answered(last.calls[2])
     /\ U32Le(last.calls[1].val_out, last.calls[2].val_out))
    => LET lo == U32Div1000(last.calls[1].val_out)
           hi == U32Div1000(last.calls[2].val_out)
       IN  /\ bcm2835_freq_table[0] = lo
           /\ hi # lo => /\ bcm2835_freq_table[1] = hi
                         /\ bcm2835_freq_table[2] = CPUFREQ_TABLE_END
           /\ hi = lo => bcm2835_freq_table[1] = CPUFREQ_TABLE_END

\* the first init ever, answered 200000 Hz and 800000 Hz: [200, 800, END]
C1_Witness ==
    /\ last.op = "init" /\ last.ret = 0
    /\ Answered(last.calls[1]) /\ last.calls[1].val_out = ToU32(200000)
    /\ Answered(last.calls[2]) /\ last.calls[2].val_out = ToU32(800000)
    /\ bcm2835_freq_table =
           (0 :> ToU32(200) @@ 1 :> ToU32(800) @@ 2 :> CPUFREQ_TABLE_END)

-----------------------------------------------------------------------------
(* C2 *)

\* the entries before the sentinel are in non-decreasing order
TableOrdered ==
    /\ bcm2835_freq_table[1] # CPUFREQ_TABLE_END
           => U32Le(bcm2835_freq_table[0], bcm2835_freq_table[1])

\* C2: min_frequency <= max_frequency and the populated table entries are
\* non-decreasing, whatever the transport did.  Stated for the states the
\* claim singles out: right after an init whose two queries both reached the
\* firmware, which did not itself report a minimum above the maximum.
C2_MinLeMax ==
    (/\ last.op = "init" /\ last.fw = "fw"
     /\ Issued(last.calls[1]) /\ Issued(last.calls[2])
     /\ (Answered(last.calls[1]) /\ Answered(last.calls[2]))
            => U32Le(last.calls[1].val_out, last.calls[2].val_out))
    => (U32Le(min_frequency, max_frequency) /\ TableOrdered)

-----------------------------------------------------------------------------
(* C3 *)

\* C3: what get returns is min_frequency or max_frequency, whatever rate the
\* transport reported and also when the transport failed.
C3_GetReturnsBound ==
    last.op = "get" => last.freq \in {min_frequency, max_frequency}

\* the firmware reported 750000 Hz, between the bounds 200 and 800 kHz
C3_Witness ==
    /\ last.op = "get"
    /\ Answered(last.calls[1]) /\ last.calls[1].val_out = ToU32(750000)
    /\ min_frequency = ToU32(200) /\ max_frequency = ToU32(800)
    /\ last.freq = ToU32(800)

-----------------------------------------------------------------------------
(* C4 *)

\* the rate target_index asks for, in kHz
TargetFreq == IF last.arg = 0 THEN min_frequency ELSE max_frequency

\* C4: target_index makes one SET_CLOCK_RATE request for the ARM clock; its
\* value is min_frequency * 1000 for index 0 and max_frequency * 1000 for any
\* other index, and that is the packet sent when the gate is open; with
\* min_frequency = max_frequency every index asks for the same value.
C4_TargetRequest ==
    last.op = "target_index" =>
        LET c == last.calls[1]
        IN  /\ Len(last.calls) = 1
            /\ c.tag = "RPI_FIRMWARE_SET_CLOCK_RATE"
            /\ c.id = VCMSG_ID_ARM_CLOCK
            /\ c.val_in = U32Mul1000(TargetFreq)
            /\ U32Div1000(c.val_in) = TargetFreq
            /\ ~Blocked(c) =>
                   c.transport = <<[tag |-> "RPI_FIRMWARE_SET_CLOCK_RATE",
                                    packet |-> [id |-> VCMSG_ID_ARM_CLOCK,
                                                val |-> U32Mul1000(TargetFreq)]]>>
            /\ min_frequency = max_frequency
                   => c.val_in = U32Mul1000(min_frequency)

\* index 2 with bounds 200 and 800 kHz: SET 800000 Hz goes to the firmware
C4_Witness ==
    /\ last.op = "target_index" /\ last.arg = 2
    /\ min_frequency = ToU32(200) /\ max_frequency = ToU32(800)
    /\ Issued(last.calls[1])
    /\ last.calls[1].transport[1].packet.val = ToU32(800000)

-----------------------------------------------------------------------------
(* C5 *)

\* C5: a target_index whose SET fails in the transport, or comes back with
\* the rate 0, returns -EINVAL and leaves min_frequency, max_frequency and
\* the table as they were.
C5_SetZeroIsEinval ==
    [][(/\ last'.op = "target_index"
        /\ (last'.calls[1].ret # 0 \/ last'.calls[1].val_out = Zero))
       => (last'.ret = -EINVAL /\ UNCHANGED DriverState)]_vars

\* the transport failed a SET of 800000 Hz
C5_Witness ==
    /\ last.op = "target_index" /\ last.ret = -EINVAL
    /\ last.calls[1].ret # 0
    /\ last.calls[1].val_in = ToU32(800000)
    /\ max_frequency = ToU32(800)

-----------------------------------------------------------------------------
(* C6 *)

\* C6: a clock-property request made while one of the two MYTEE flags is set
\* sends nothing to rpi_firmware_property, returns 0, and leaves *val at the
\* value the caller passed in.
C6_BlockedIsNoOp ==
    \A i \in 1 .. Len(last.calls) :
        LET c == last.calls[i]
        IN  Blocked(c) => (c.transport = <<>> /\ c.ret = 0 /\ c.val_out = c.val_in)

\* only the write flag was set during a SET of 800000 Hz
C6_Witness ==
    /\ last.op = "target_index"
    /\ last.calls[1].write_flag = 1 /\ last.calls[1].mmap_flag = 0
    /\ last.calls[1].val_in = ToU32(800000)
    /\ last.calls[1].val_out = ToU32(800000)
    /\ last.calls[1].transport = <<>>

-----------------------------------------------------------------------------
(* C7 *)

\* C7: an init that finds no firmware returns -ENODEV, makes no property
\* request, and leaves min_frequency, max_frequency, the table and the policy
\* as they were.
C7_NoFirmware ==
    [][(last'.op = "init" /\ last'.fw = "NULL")
       => (/\ last'.ret = -ENODEV
           /\ last'.calls = <<>>
           /\ UNCHANGED <<DriverState, policy>>)]_vars

\* before any init succeeded: nothing is registered with the policy
C7_Witness ==
    /\ last.op = "init" /\ last.fw = "NULL" /\ last.ret = -ENODEV
    /\ policy.freq_table = "NULL"
    /\ bcm2835_freq_table = [i \in 0 .. 2 |-> Zero]

-----------------------------------------------------------------------------
(* C8 *)

\* the table holds 0 in a slot before the sentinel
ZeroInTable ==
    \/ bcm2835_freq_table[0] = Zero
    \/ bcm2835_freq_table[0] # CPUFREQ_TABLE_END /\ bcm2835_freq_table[1] = Zero

\* C8: in an init that found the firmware, a query the transport failed sets
\* its bound to 0; both queries are still made, the 0 is in the table (slot 0
\* for the minimum; slot 1 for the maximum unless the minimum is 0 too), and
\* init goes on to hand the table and the latency to cpufreq_generic_init,
\* whose result it returns.
C8_FailedQueryIsZero ==
    (last.op = "init" /\ last.fw = "fw") =>
        /\ Len(last.calls) = 2
        /\ last.calls[1].tag = "RPI_FIRMWARE_GET_MIN_CLOCK_RATE"
        /\ last.calls[2].tag = "RPI_FIRMWARE_GET_MAX_CLOCK_RATE"
        /\ last.calls[1].ret # 0
               => (min_frequency = Zero /\ bcm2835_freq_table[0] = Zero)
        /\ last.calls[2].ret # 0
               => /\ max_frequency = Zero
                  /\ ZeroInTable
                  /\ min_frequency # Zero => bcm2835_freq_table[1] = Zero
        /\ Len(last.generic) = 1
        /\ last.generic[1].table = "bcm2835_freq_table"
        /\ last.generic[1].transition_latency = transition_latency
        /\ last.ret = last.generic[1].ret

\* the minimum was answered (200000 Hz), the maximum query failed
C8_Witness ==
    /\ last.op = "init" /\ last.fw = "fw" /\ last.ret = 0
    /\ Answered(last.calls[1]) /\ last.calls[1].val_out = ToU32(200000)
    /\ Issued(last.calls[2]) /\ last.calls[2].ret # 0
    /\ max_frequency = Zero
    /\ bcm2835_freq_table[1] = Zero
    /\ last.generic # <<>>

-----------------------------------------------------------------------------
(* C9 *)

\* C9: no error code of the transport leaves the driver: target_index returns
\* 0 or -EINVAL, get returns a frequency that is not the failed call's error
\* code, and init returns -ENODEV or what cpufreq_generic_init returned, with
\* 0 as the bound of a failed query.
C9_NoRawTransportError ==
    /\ last.op = "target_index" => last.ret \in {0, -EINVAL}
    /\ last.op = "get" =>
           \A e \in TransportErrors :
               last.calls[1].ret = e => last.freq # ToU32(e)
    /\ last.op = "init" =>
           /\ \/ last.fw = "NULL" /\ last.ret = -ENODEV
              \/ Len(last.generic) = 1 /\ last.ret = last.generic[1].ret
           /\ \A i \in 1 .. Len(last.calls) :
                  last.calls[i].ret # 0 =>
                      (IF i = 1 THEN min_frequency ELSE max_frequency) = Zero

\* the transport timed out (-ETIMEDOUT) on a SET: target_index says -EINVAL
C9_Witness ==
    /\ last.op = "target_index"
    /\ Issued(last.calls[1]) /\ last.calls[1].ret = -110
    /\ last.ret = -EINVAL

-----------------------------------------------------------------------------
(* C10 *)

\* C10: get and target_index leave min_frequency, max_frequency and every
\* table slot as they were, whatever the transport and the gate answer: a
\* step that changes one of them is an init.
C10_OnlyInitWrites ==
    [][last'.op \in {"get", "target_index"} => UNCHANGED DriverState]_vars

\* a target_index that succeeded with a rate (750 kHz) that is neither bound
C10_Witness ==
    /\ last.op = "target_index" /\ last.ret = 0
    /\ Answered(last.calls[1]) /\ last.calls[1].val_out = ToU32(750000)
    /\ min_frequency = ToU32(200) /\ max_frequency = ToU32(800)

-----------------------------------------------------------------------------
(* C11 *)

\* the inputs a recorded call was made with
EnvOf(c) ==
    [mmap_flag |-> c.mmap_flag, write_flag |-> c.write_flag, stack |-> c.val_in,
     fw_ret |-> c.ret, fw_val |-> IF Answered(c) THEN c.val_out ELSE Zero]

\* what the three slots may hold before an init runs
PreTables == [0 .. 2 -> {Zero, ToU32(800), CPUFREQ_TABLE_END}]

\* the table an init builds from table t with the responses of the last init
BuiltFrom(t) ==
    bcm2835_cpufreq_driver_init(Zero, Zero, t, policy, "fw",
                                EnvOf(last.calls[1]), EnvOf(last.calls[2])).table

\* tables a and b agree in every slot up to and including the first sentinel
SameUpToEnd(a, b) ==
    /\ a[0] = b[0]
    /\ a[1] = b[1]
    /\ (a[0] # CPUFREQ_TABLE_END /\ a[1] # CPUFREQ_TABLE_END) => a[2] = b[2]

\* the table at module load
LoadTable == [i \in 0 .. 2 |-> Zero]

\* C11 as stated: the table an init leaves is, in all three slots, the table
\* that the first init after module load builds from the same two responses,
\* whatever the table held before this run.
C11_SameTableAllSlots ==
    (last.op = "init" /\ last.fw = "fw") =>
        BuiltFrom(LoadTable) = bcm2835_freq_table

\* C11 amended: two init runs with the same two responses leave the same table
\* in every slot up to and including the sentinel, whatever the table held
\* before each run; slot 2 behind a sentinel in slot 1 keeps what it held.
C11_SameTableUpToEnd ==
    (last.op = "init" /\ last.fw = "fw") =>
        \A t \in PreTables : SameUpToEnd(BuiltFrom(t), bcm2835_freq_table)

\* a one-entry table built over an earlier two-entry table: slot 2 still
\* holds the earlier sentinel, which a run after module load leaves 0
C11_Witness ==
    /\ last.op = "init" /\ last.fw = "fw"
    /\ bcm2835_freq_table[0] = ToU32(200)
    /\ bcm2835_freq_table[1] = CPUFREQ_TABLE_END
    /\ bcm2835_freq_table[2] = CPUFREQ_TABLE_END
    /\ BuiltFrom(LoadTable)[2] = Zero

-----------------------------------------------------------------------------
(* C12 *)

\* the firmware, or the shut gate, handed the request's own value back
Echoed(c) == c.ret = 0 /\ c.val_out = c.val_in

\* C12: a rate in Hz that is an exact multiple of 1000 survives the division
\* by 1000 of the GET path and the multiplication by 1000 of the SET path.
\* The bound init stores for such an answer, times 1000, is the answer; the
\* value target_index sends is a multiple of 1000 whose division by 1000 is
\* the stored bound, and an echo of it is converted back to that bound.
C12_RoundTrip ==
    /\ (last.op = "init" /\ last.fw = "fw") =>
           \A i \in 1 .. 2 :
               (Answered(last.calls[i]) /\ U32Mod1000(last.calls[i].val_out) = 0)
                   => U32Mul1000(IF i = 1 THEN min_frequency ELSE max_frequency)
                          = last.calls[i].val_out
    /\ last.op = "target_index" =>
           /\ U32Mod1000(last.calls[1].val_in) = 0
           /\ U32Div1000(last.calls[1].val_in) = TargetFreq
           /\ Echoed(last.calls[1])
                  => U32Div1000(last.calls[1].val_out) = TargetFreq

\* the largest multiple, 4294967000 Hz, read as the maximum by init, sent by
\* target_index and echoed by the firmware
C12_Witness ==
    /\ last.op = "target_index" /\ last.arg = 1 /\ last.ret = 0
    /\ max_frequency = MaxKHz
    /\ Answered(last.calls[1]) /\ Echoed(last.calls[1])
    /\ last.calls[1].val_out = U32Mul1000(MaxKHz)
    /\ last.calls[1].val_out # U32Max

-----------------------------------------------------------------------------
(* C13 *)

\* calls c and d got the same response: the same return code and, where the
\* value is read, the same value
SameResponse(c, d) == c.ret = d.ret /\ (c.ret = 0 => c.val_out = d.val_out)

\* C13: a get that follows a get and sees the same response of the transport
\* returns the same value as the one before it.
C13_GetIdempotent ==
    [][(/\ last.op = "get" /\ last'.op = "get"
        /\ SameResponse(last.calls[1], last'.calls[1]))
       => last'.freq = last.freq]_vars

\* a get answered 800000 Hz with bounds 200 and 800 kHz returned 800
C13_Witness ==
    /\ last.op = "get"
    /\ Answered(last.calls[1]) /\ last.calls[1].val_out = ToU32(800000)
    /\ min_frequency = ToU32(200) /\ max_frequency = ToU32(800)
    /\ last.freq = ToU32(800)

-----------------------------------------------------------------------------
(* C14 *)

\* C14: when the GET of the current rate yields a rate, get returns
\* min_frequency if that rate divided by 1000 (truncated) is at most
\* min_frequency, and max_frequency otherwise.
C14_GetSnaps ==
    (last.op = "get" /\ last.calls[1].ret = 0) =>
        last.freq = IF U32Le(U32Div1000(last.calls[1].val_out), min_frequency)
                    THEN min_frequency
                    ELSE max_frequency

\* the boundary: 200000 Hz is 200 kHz, not above the minimum 200: get says 200
C14_Witness ==
    /\ last.op = "get"
    /\ Answered(last.calls[1]) /\ last.calls[1].val_out = ToU32(200000)
    /\ min_frequency = ToU32(200) /\ max_frequency = ToU32(800)
    /\ last.freq = ToU32(200)

-----------------------------------------------------------------------------
(* C15 *)

\* the packets the last callback handed to rpi_firmware_property
Packets(i) == last.calls[i].transport

\* C15: get and target_index make one property request that reaches the
\* transport at most once; init makes none when it finds no firmware and
\* otherwise two, GET_MIN_CLOCK_RATE then GET_MAX_CLOCK_RATE, each reaching
\* the transport at most once, a failed one included.
C15_NoRetry ==
    /\ last.op \in {"get", "target_index"} =>
           (Len(last.calls) = 1 /\ Len(Packets(1)) <= 1)
    /\ last.op = "get" =>
           \A k \in 1 .. Len(Packets(1)) :
               Packets(1)[k].tag = "RPI_FIRMWARE_GET_CLOCK_RATE"
    /\ last.op = "target_index" =>
           \A k \in 1 .. Len(Packets(1)) :
               Packets(1)[k].tag = "RPI_FIRMWARE_SET_CLOCK_RATE"
    /\ (last.op = "init" /\ last.fw = "NULL") => last.calls = <<>>
    /\ (last.op = "init" /\ last.fw = "fw") =>
           /\ Len(last.calls) = 2
           /\ Len(Packets(1)) <= 1 /\ Len(Packets(2)) <= 1
           /\ \A k \in 1 .. Len(Packets(1)) :
                  Packets(1)[k].tag = "RPI_FIRMWARE_GET_MIN_CLOCK_RATE"
           /\ \A k \in 1 .. Len(Packets(2)) :
                  Packets(2)[k].tag = "RPI_FIRMWARE_GET_MAX_CLOCK_RATE"

\* an init whose first query timed out: one packet for it, one for the second
C15_Witness ==
    /\ last.op = "init" /\ last.fw = "fw"
    /\ last.calls[1].ret = -110 /\ Len(last.calls[1].transport) = 1
    /\ Answered(last.calls[2]) /\ Len(last.calls[2].transport) = 1

-----------------------------------------------------------------------------
(* C16 *)

\* C16: target_index returns 0 exactly when the SET succeeded with a rate
\* whose division by 1000 is not 0, also when that rate is not the rate asked
\* for; otherwise it returns -EINVAL.
C16_SuccessIffNonzero ==
    last.op = "target_index" =>
        LET c == last.calls[1]
            nonzero == c.ret = 0 /\ U32Div1000(c.val_out) # Zero
        IN  /\ last.ret = 0 <=> nonzero
            /\ last.ret = -EINVAL <=> ~nonzero

\* index 0 asked for 200000 Hz, the firmware applied 800000 Hz: success
C16_Witness ==
    /\ last.op = "target_index" /\ last.arg = 0 /\ last.ret = 0
    /\ min_frequency = ToU32(200)
    /\ last.calls[1].val_in = ToU32(200000)
    /\ Answered(last.calls[1]) /\ last.calls[1].val_out = ToU32(800000)

-----------------------------------------------------------------------------
(* C17 *)

\* C17: a get whose GET of the current rate fails in the transport returns
\* min_frequency, whatever the two bounds are.
C17_FailedGetIsMin ==
    (last.op = "get" /\ last.calls[1].ret # 0) => last.freq = min_frequency

\* the GET failed with bounds 200 and 800 kHz: get says 200
C17_Witness ==
    /\ last.op = "get"
    /\ Issued(last.calls[1]) /\ last.calls[1].ret # 0
    /\ min_frequency = ToU32(200) /\ max_frequency = ToU32(800)
    /\ last.freq = ToU32(200)

-----------------------------------------------------------------------------
(* C18 *)

\* the table agrees with the two bounds
TableAgrees ==
    /\ bcm2835_freq_table[0] = min_frequency
    /\ bcm2835_freq_table[1] =
           IF min_frequency = max_frequency THEN CPUFREQ_TABLE_END
                                            ELSE max_frequency

\* no init has got past the firmware check: the statics are as loaded
NeverBuilt ==
    /\ min_frequency = Zero /\ max_frequency = Zero
    /\ bcm2835_freq_table = LoadTable
    /\ ~(last.op = "init" /\ last.fw = "fw")

\* C18: with init calls serialized (each runs as one step), in every state
\* reached after an init got past the firmware check slot 0 is min_frequency
\* and slot 1 is max_frequency, or the sentinel when the two bounds are equal;
\* before that the statics are as loaded.
C18_TableAgreesWithState == TableAgrees \/ NeverBuilt

\* a later init changed the bounds from two operating points to one, and a
\* target_index ran since
C18_Witness ==
    /\ last.op = "target_index"
    /\ min_frequency = ToU32(800) /\ max_frequency = ToU32(800)
    /\ bcm2835_freq_table[0] = ToU32(800)
    /\ bcm2835_freq_table[1] = CPUFREQ_TABLE_END
    /\ bcm2835_freq_table[2] = CPUFREQ_TABLE_END

-----------------------------------------------------------------------------
(* C19 *)

\* C19: min_frequency and max_frequency never exceed 4294967 kHz, so the
\* multiplication by 1000 of the SET path does not wrap around 2^32: the
\* product divides back to the bound with no remainder, and that product is
\* what target_index sends.
C19_NoOverflow ==
    /\ \A b \in {min_frequency, max_frequency} :
           /\ U32Le(b, MaxKHz)
           /\ U32Div1000(U32Mul1000(b)) = b
           /\ U32Mod1000(U32Mul1000(b)) = 0
    /\ last.op = "target_index" =>
           /\ U32Div1000(last.calls[1].val_in) = TargetFreq
           /\ U32Mod1000(last.calls[1].val_in) = 0

\* the largest bound, 4294967 kHz, requested as 4294967000 Hz
C19_Witness ==
    /\ last.op = "target_index" /\ last.arg = 2
    /\ max_frequency = MaxKHz
    /\ Issued(last.calls[1])
    /\ last.calls[1].transport[1].packet.val = [hi |-> 65535, lo |-> 65240]

====
